---- MODULE Spec2Model ----
(***************************************************************************)
(* Model of src/outbound.js: the bridge between one telephony media-stream *)
(* connection (/outbound-media-stream), the conversational-AI WebSocket it  *)
(* opens, and the observers registered in callClientMap                     *)
(* (/transcription-stream/:callSid).                                        *)
(*                                                                          *)
(* Every handler of the source is one atomic action (JavaScript runs each   *)
(* callback to completion).  The peers (telephony provider, AI provider,    *)
(* observers, the signed-URL endpoint) are the environment: their messages  *)
(* and connection events are drawn from small sets.                         *)
(***************************************************************************)
EXTENDS Integers, Sequences, FiniteSets, TLC

\* JavaScript null / undefined / an absent property.
Null == "<null>"

-----------------------------------------------------------------------------
(* Bounds of the model                                                     *)

\* messages handled on the telephony and AI connections and requests
\* handled by POST /outbound-call, together
MaxMsgs == 3

-----------------------------------------------------------------------------
(* Base64 re-encoding, line 249:                                           *)
(*   Buffer.from(message.media.payload, "base64").toString("base64")       *)
(* A string is a sequence of symbols: 0..63 are the characters of the      *)
(* base64 alphabet (by value), Pad is "=", Junk is any other character.    *)

Pad == 64
Junk == 65

Pow2(n) == IF n = 0 THEN 1 ELSE IF n = 2 THEN 4 ELSE IF n = 4 THEN 16
           ELSE IF n = 6 THEN 64 ELSE IF n = 8 THEN 256 ELSE 1024

\* The prefix of s before its first Pad: decoding stops at "=".
RECURSIVE BeforePad(_)
BeforePad(s) ==
    IF s = <<>> \/ Head(s) = Pad THEN <<>>
    ELSE <<Head(s)>> \o BeforePad(Tail(s))

IsSextet(c) == c < 64

\* Buffer.from(s, "base64"): characters outside the alphabet are skipped,
\* every 4 characters give 3 bytes, a tail of 2 (3) characters gives 1 (2)
\* bytes and a tail of 1 character gives none.
Base64Decode(s) ==
    LET sx == SelectSeq(BeforePad(s), IsSextet)
        nb == (Len(sx) * 6) \div 8
    IN  [k \in 1..nb |->
            LET bit == 8 * (k - 1)
                i   == (bit \div 6) + 1
                off == bit % 6
            IN  ((sx[i] * 64 + sx[i + 1]) \div Pow2(4 - off)) % 256]

\* buf.toString("base64"): canonical encoding, padded to a multiple of 4.
Base64Encode(b) ==
    LET nb == Len(b)
        ns == (nb * 8 + 5) \div 6
        np == (4 - (ns % 4)) % 4
        sx == [j \in 1..ns |->
                LET bit == 6 * (j - 1)
                    i   == (bit \div 8) + 1
                    off == bit % 8
                    w   == b[i] * 256 + (IF i + 1 <= nb THEN b[i + 1] ELSE 0)
                IN  (w \div Pow2(10 - off)) % 64]
    IN  sx \o [j \in 1..np |-> Pad]

Reencode(s) == Base64Encode(Base64Decode(s))

-----------------------------------------------------------------------------
(* Inputs                                                                  *)

\* customParameters of a start event: absent, or an object whose fields may
\* be absent.
NoParams    == [present |-> FALSE, prompt |-> Null, first_message |-> Null]
FullParams  == [present |-> TRUE, prompt |-> "P1", first_message |-> "F1"]
EmptyParams == [present |-> TRUE, prompt |-> "", first_message |-> Null]

\* "QUJD" (canonical) and "Q\nR" (a stray character, no padding, low bits
\* set in the last character).
Payloads == { <<16, 20, 9, 3>>, <<16, Junk, 17>> }

TwilioFrame(json, event, hasBody, sid, cid, params, payload) ==
    [json |-> json, event |-> event, hasBody |-> hasBody, streamSid |-> sid,
     callSid |-> cid, customParameters |-> params, payload |-> payload]

\* Frames the telephony provider may send.  json = FALSE is a frame that is
\* not JSON; hasBody = FALSE is a start without `start` or a media without
\* `media`.
TwilioFrames ==
    { TwilioFrame(FALSE, Null, FALSE, Null, Null, NoParams, <<>>),
      TwilioFrame(TRUE, "connected", FALSE, Null, Null, NoParams, <<>>),
      TwilioFrame(TRUE, "stop", FALSE, Null, Null, NoParams, <<>>),
      TwilioFrame(TRUE, "start", FALSE, Null, Null, NoParams, <<>>),
      TwilioFrame(TRUE, "start", TRUE, "ST1", "CA1", FullParams, <<>>),
      TwilioFrame(TRUE, "start", TRUE, "ST2", "CA2", NoParams, <<>>),
      TwilioFrame(TRUE, "start", TRUE, Null, "CA1", EmptyParams, <<>>),
      TwilioFrame(TRUE, "media", FALSE, Null, Null, NoParams, <<>>) }
    \cup { TwilioFrame(TRUE, "media", TRUE, Null, Null, NoParams, p) :
             p \in Payloads }

AiFrame(json, type, text, chunk, audio64) ==
    [json |-> json, type |-> type, text |-> text, chunk |-> chunk,
     audio_base_64 |-> audio64]

\* Messages the AI provider may send.  text is
\* agent_response_event.agent_response or
\* user_transcription_event.user_transcript; chunk is audio.chunk;
\* audio_base_64 is audio_event.audio_base_64.
AiFrames ==
    { AiFrame(FALSE, Null, Null, Null, Null),
      AiFrame(TRUE, "ping", Null, Null, Null),
      AiFrame(TRUE, "agent_response", "hello", Null, Null),
      AiFrame(TRUE, "agent_response", Null, Null, Null),
      AiFrame(TRUE, "user_transcript", "hi", Null, Null),
      AiFrame(TRUE, "audio", Null, "QUJD", Null),
      AiFrame(TRUE, "audio", Null, Null, "REVG"),
      AiFrame(TRUE, "audio", Null, "", "REVG"),
      AiFrame(TRUE, "audio", Null, "QUJD", "REVG"),
      AiFrame(TRUE, "audio", Null, Null, Null),
      AiFrame(TRUE, "interruption", Null, Null, Null) }

\* Outcomes of the signed-URL request (getSignedUrl).
FetchOutcomes == { "ok", "http_error", "network_error", "no_url" }

Observers == { "A", "B" }
CallIds   == { "CA1", "CA2" }

-----------------------------------------------------------------------------
(* State                                                                   *)

VARIABLES
    twilioState,       \* readyState of ws, the telephony connection
    streamSid,         \* line 139
    callSid,           \* line 140
    customParameters,  \* line 142
    stopReceived,      \* whether the branch of line 252 (a stop event) has run
    setup,             \* where setupElevenLabs is: "fetching", "failed", "done"
    elState,           \* elevenLabsWs: "NONE" (null) or its readyState
    elReceiver,        \* whether elevenLabsWs can still emit "message": from
                       \* open until the peer's close frame, an error or close
    elevenOut,         \* what elevenLabsWs.send was given, in order
    twilioOut,         \* what ws.send was given, in order
    callClientMap,     \* line 272: callSid -> observer socket, or NoClient
    obsState,          \* readyState of each observer socket, "IDLE" before it connects
    obsCall,           \* req.params.callSid of each observer connection
    obsIn,             \* what each observer socket's send was given, in order
    console,           \* the last line written with console.log/warn/error
    handled            \* number of messages and requests handled

vars == << twilioState, streamSid, callSid, customParameters, stopReceived,
           setup, elState, elReceiver,
           elevenOut, twilioOut, callClientMap, obsState, obsCall, obsIn,
           console, handled >>

sessionVars  == << streamSid, callSid, customParameters, stopReceived >>
observerVars == << callClientMap, obsState, obsCall, obsIn >>

NoClient == "<none>"

\* JavaScript truthiness of a string-or-null value: if (streamSid), x || y.
Truthy(v) == v # Null /\ v # ""

\* Lines 272, 296-302: the state when the server listens: no telephony
\* connection has been accepted and the registry is empty.
Init ==
    /\ twilioState = "NONE"
    /\ streamSid = Null
    /\ callSid = Null
    /\ customParameters = NoParams
    /\ stopReceived = FALSE
    /\ setup = "idle"
    /\ elState = "NONE"
    /\ elReceiver = FALSE
    /\ elevenOut = <<>>
    /\ twilioOut = <<>>
    /\ callClientMap = [c \in CallIds |-> NoClient]
    /\ obsState = [o \in Observers |-> "IDLE"]
    /\ obsCall = [o \in Observers |-> Null]
    /\ obsIn = [o \in Observers |-> <<>>]
    /\ console = "[Server] Listening on port"
    /\ handled = 0

-----------------------------------------------------------------------------
(* POST /outbound-call, lines 84-114                                       *)

\* Outcomes of a request: the body has no number (400), calls.create
\* resolves, calls.create rejects.
CallOutcomes == { "no_number", "created", "rejected" }

\* Lines 84-114: the route replies; only the catch of line 107 writes to the
\* console.  It reads and writes nothing of a media-stream session or of the
\* registry.
OutboundCall(outcome) ==
    /\ handled < MaxMsgs
    /\ handled' = handled + 1
    /\ console' = IF outcome = "rejected"
                  THEN "Error initiating outbound call:" ELSE console
    /\ UNCHANGED << twilioState, sessionVars, setup, elState, elReceiver,
                    elevenOut, twilioOut, observerVars >>

-----------------------------------------------------------------------------
(* /outbound-media-stream, lines 135-268                                   *)

\* Lines 136-144, 236: the telephony connection is accepted: the session's
\* variables are null, the handlers are registered and setupElevenLabs() is
\* called and awaits getSignedUrl().
TwilioAccept ==
    /\ twilioState = "NONE"
    /\ twilioState' = "OPEN"
    /\ setup' = "fetching"
    /\ console' = "[Server] Twilio connected to outbound media stream"
    /\ UNCHANGED << sessionVars, elState, elReceiver, elevenOut, twilioOut,
                    observerVars, handled >>

-----------------------------------------------------------------------------
(* setupElevenLabs, lines 155-234, and getSignedUrl, lines 59-81          *)

\* getSignedUrl returns data.signed_url when response.ok, and throws otherwise
\* (lines 71-73, 77-80).  The result is Null when the field is missing.
getSignedUrl(outcome) ==
    CASE outcome = "ok"      -> [threw |-> FALSE, url |-> "wss://signed"]
      [] outcome = "no_url"  -> [threw |-> FALSE, url |-> Null]
      [] OTHER               -> [threw |-> TRUE, url |-> Null]

\* Lines 157-158: the state of elevenLabsWs after the await.  new WebSocket
\* throws on an undefined URL; both throws end in the catch of line 231,
\* which logs and leaves elevenLabsWs null.
SocketAfterFetch(outcome) ==
    LET r == getSignedUrl(outcome)
    IN  IF r.threw \/ r.url = Null THEN "NONE" ELSE "CONNECTING"

\* Lines 231-233: what the catch of setupElevenLabs does to the telephony
\* connection: it logs.
TwilioAfterSetupFailure(ts) == ts

\* The signed-URL request settles and setupElevenLabs resumes.
FetchDone(outcome) ==
    /\ setup = "fetching"
    /\ elState' = SocketAfterFetch(outcome)
    /\ IF elState' = "NONE"
       THEN /\ setup' = "failed"
            /\ console' = "Error setting up ElevenLabs WebSocket:"
            /\ twilioState' = TwilioAfterSetupFailure(twilioState)
       ELSE /\ setup' = "done"
            /\ UNCHANGED << console, twilioState >>
    /\ UNCHANGED << sessionVars, elReceiver, elevenOut, twilioOut,
                    observerVars, handled >>

\* Lines 161-171: the initialization message.
InitialConfig(params) ==
    [type |-> "conversation_initiation_client_data",
     prompt |-> IF params.present /\ Truthy(params.prompt)
                THEN params.prompt ELSE "you are gary from the phone store",
     first_message |-> IF params.present /\ Truthy(params.first_message)
                       THEN params.first_message
                       ELSE "Hey, how can I help you today?"]

\* Lines 160-173: elevenLabsWs "open".
ElevenLabsOpen ==
    /\ elState = "CONNECTING"
    /\ elState' = "OPEN"
    /\ elReceiver' = TRUE
    /\ elevenOut' = Append(elevenOut, InitialConfig(customParameters))
    /\ UNCHANGED << twilioState, sessionVars, setup, twilioOut, observerVars,
                    console, handled >>

\* What the handlers of lines 229-230 do to the telephony connection when
\* the AI connection closes or errors: they log.
TwilioAfterElevenLabsClose(ts) == ts

\* The peer's close frame arrives on the AI connection: readyState becomes
\* CLOSING and no further message is emitted; no handler of lines 160-230
\* runs until the close event.
ElevenLabsClosing ==
    /\ elState \in { "OPEN", "CLOSING" }
    /\ elReceiver
    /\ elState' = "CLOSING"
    /\ elReceiver' = FALSE
    /\ UNCHANGED << twilioState, sessionVars, setup, elevenOut, twilioOut,
                    observerVars, console, handled >>

\* Line 230: elevenLabsWs "error" as a turn of its own: the opening
\* handshake fails after the 101 response (an invalid Sec-WebSocket-Accept
\* header), or the peer sends an invalid frame on the established
\* connection.  readyState is CLOSING when the handler runs, no message is
\* emitted any more, and the close event follows in a later turn.
ElevenLabsError ==
    /\ \/ elState = "CONNECTING"
       \/ elState \in { "OPEN", "CLOSING" } /\ elReceiver
    /\ elState' = "CLOSING"
    /\ elReceiver' = FALSE
    /\ twilioState' = TwilioAfterElevenLabsClose(twilioState)
    /\ console' = IF elState = "CONNECTING"
                  THEN "Error: Invalid Sec-WebSocket-Accept header"
                  ELSE "RangeError: Invalid WebSocket frame: RSV2 and RSV3 must be clear"
    /\ UNCHANGED << sessionVars, setup, elevenOut, twilioOut, observerVars,
                    handled >>

\* Line 229: elevenLabsWs "close": the connection was refused or the
\* upgrade was answered with an HTTP error, in which case the handler of
\* line 230 has run in the same turn; the connection was lost; or a closing
\* handshake, started by either side or by an error, has ended.
ElevenLabsClose ==
    /\ elState \in { "CONNECTING", "OPEN", "CLOSING" }
    /\ elState' = "CLOSED"
    /\ elReceiver' = FALSE
    /\ twilioState' = TwilioAfterElevenLabsClose(twilioState)
    /\ console' = "[ElevenLabs] Disconnected"
    /\ UNCHANGED << sessionVars, setup, elevenOut, twilioOut, observerVars,
                    handled >>

-----------------------------------------------------------------------------
(* sendToFrontend, lines 146-153                                           *)

\* callClientMap.get(cid): no observer registers under null.
Lookup(map, cid) == IF cid \in DOMAIN map THEN map[cid] ELSE NoClient

\* Line 148: clientWs && clientWs.readyState === WebSocket.OPEN.
FrontendWritable(map, states, cid) ==
    /\ Lookup(map, cid) # NoClient
    /\ states[Lookup(map, cid)] = "OPEN"

\* Faulty variant of sendToFrontend: the readyState test of line 148 is missing.
sendToFrontendUnchecked(data) ==
    IF Lookup(callClientMap, callSid) # NoClient
    THEN [obsIn EXCEPT ![Lookup(callClientMap, callSid)] = Append(@, data)]
    ELSE obsIn

\* Faulty variant of sendToFrontend: the event is put in front of what the
\* client was sent before.
sendToFrontendInFront(data) ==
    IF FrontendWritable(callClientMap, obsState, callSid)
    THEN [obsIn EXCEPT ![Lookup(callClientMap, callSid)] = << data >> \o @]
    ELSE obsIn

\* The observers' inboxes after sendToFrontend(data).
sendToFrontend(data) ==
    IF FrontendWritable(callClientMap, obsState, callSid)
    THEN [obsIn EXCEPT ![Lookup(callClientMap, callSid)] = Append(@, data)]
    ELSE obsIn

-----------------------------------------------------------------------------
(* elevenLabsWs.on("message"), lines 175-226                               *)

Transcript(speaker, text) ==
    [event |-> "transcript", speaker |-> speaker, text |-> text]

MediaFrame(sid, payload) ==
    [event |-> "media", streamSid |-> sid, payload |-> payload]

ClearFrame(sid) ==
    [event |-> "clear", streamSid |-> sid, payload |-> Null]

\* Faulty variant of FrontendEventsFor: every transcript is labelled "Agent".
FrontendEventsAllAgent(m) ==
    IF ~m.json THEN <<>>
    ELSE IF m.type \in { "agent_response", "user_transcript" }
         THEN << [event |-> "transcript", speaker |-> "Agent",
                  text |-> m.text] >>
         ELSE <<>>

\* Lines 180-186: what the handler passes to sendToFrontend for message m
\* (at most one event).  A text of Null is an event without a text field.
FrontendEventsFor(m) ==
    IF ~m.json THEN <<>>
    ELSE CASE m.type = "agent_response"  -> << Transcript("Agent", m.text) >>
           [] m.type = "user_transcript" -> << Transcript("User", m.text) >>
           [] OTHER -> <<>>

\* Faulty variant of TwilioFramesFor: the audio_event.audio_base_64 branch of lines
\* 199-208 is missing.
TwilioFramesChunkOnly(m, sid) ==
    IF ~m.json THEN <<>>
    ELSE CASE m.type = "audio" ->
                IF Truthy(sid) /\ Truthy(m.chunk)
                THEN << MediaFrame(sid, m.chunk) >> ELSE <<>>
           [] m.type = "interruption" ->
                IF Truthy(sid) THEN << ClearFrame(sid) >> ELSE <<>>
           [] OTHER -> <<>>

\* Faulty variant of TwilioFramesFor: the media frame is sent without the
\* test of line 189.
TwilioFramesAudioUnguarded(m, sid) ==
    IF ~m.json THEN <<>>
    ELSE CASE m.type = "audio" ->
                IF Truthy(m.chunk) THEN << MediaFrame(sid, m.chunk) >>
                ELSE IF Truthy(m.audio_base_64)
                     THEN << MediaFrame(sid, m.audio_base_64) >>
                ELSE <<>>
           [] m.type = "interruption" ->
                IF Truthy(sid) THEN << ClearFrame(sid) >> ELSE <<>>
           [] OTHER -> <<>>

\* Faulty variant of TwilioFramesFor: the clear frame is sent without the test of
\* line 215.
TwilioFramesClearUnguarded(m, sid) ==
    IF ~m.json THEN <<>>
    ELSE CASE m.type = "audio" ->
                IF ~Truthy(sid) THEN <<>>
                ELSE IF Truthy(m.chunk) THEN << MediaFrame(sid, m.chunk) >>
                ELSE IF Truthy(m.audio_base_64)
                     THEN << MediaFrame(sid, m.audio_base_64) >>
                ELSE <<>>
           [] m.type = "interruption" -> << ClearFrame(sid) >>
           [] OTHER -> <<>>

\* Lines 188-218: what the handler passes to ws.send for message m when the
\* session's streamSid is sid.
TwilioFramesFor(m, sid) ==
    IF ~m.json THEN <<>>
    ELSE CASE m.type = "audio" ->
                IF ~Truthy(sid) THEN <<>>
                ELSE IF Truthy(m.chunk) THEN << MediaFrame(sid, m.chunk) >>
                ELSE IF Truthy(m.audio_base_64)
                     THEN << MediaFrame(sid, m.audio_base_64) >>
                ELSE <<>>
           [] m.type = "interruption" ->
                IF Truthy(sid) THEN << ClearFrame(sid) >> ELSE <<>>
           [] OTHER -> <<>>

\* What the handler passes to sendToFrontend that is mirrored from the
\* frames of lines 198, 207 and 216: nothing.
MirroredToFrontend(frames) == <<>>

\* The console after the handler has run for message m (lines 151, 210,
\* 221, 224).
ConsoleAfterAi(m, sid, writable, cur) ==
    IF ~m.json THEN "Error processing message from ElevenLabs:"
    ELSE CASE m.type \in { "agent_response", "user_transcript" } ->
                IF writable THEN cur ELSE "No frontend client found for callSid"
           [] m.type = "audio" ->
                IF Truthy(sid) THEN cur
                ELSE "[ElevenLabs] Received audio but no StreamSid yet"
           [] m.type = "interruption" -> cur
           [] OTHER -> "[ElevenLabs] Unhandled message type"

\* The AI connection's state after the handler has run for message m: the
\* handler catches what JSON.parse throws and closes nothing.
ElevenLabsAfterMessage(m, el) == el

\* A message arrives on the AI connection.  The socket emits messages also
\* after the bridge has called close(), until the peer's close frame, an
\* error or the close event.
ElevenLabsOnMessage(m) ==
    /\ elState \in { "OPEN", "CLOSING" }
    /\ elReceiver
    /\ handled < MaxMsgs
    /\ handled' = handled + 1
    /\ LET events == FrontendEventsFor(m)
                     \o MirroredToFrontend(TwilioFramesFor(m, streamSid))
       IN  obsIn' = IF events = <<>> THEN obsIn ELSE sendToFrontend(events[1])
    /\ twilioOut' = twilioOut \o TwilioFramesFor(m, streamSid)
    /\ elState' = ElevenLabsAfterMessage(m, elState)
    /\ console' = ConsoleAfterAi(m, streamSid,
                     FrontendWritable(callClientMap, obsState, callSid), console)
    /\ UNCHANGED << twilioState, sessionVars, setup, elReceiver, elevenOut,
                    callClientMap, obsState, obsCall >>

-----------------------------------------------------------------------------
(* ws.on("message"), lines 238-260: the telephony handler                  *)

\* Whether the try block throws for frame m: JSON.parse on a frame that is
\* not JSON, message.start.streamSid without `start`, message.media.payload
\* without `media`.
TwilioThrows(m, el) ==
    \/ ~m.json
    \/ m.event = "start" /\ ~m.hasBody
    \/ m.event = "media" /\ el = "OPEN" /\ ~m.hasBody

\* The session's identifiers, lines 139-142.
Session ==
    [streamSid |-> streamSid, callSid |-> callSid,
     customParameters |-> customParameters]

\* Lines 241-244: the session's identifiers after frame m.
SessionAfter(m, cur) ==
    IF m.json /\ m.event = "start" /\ m.hasBody
    THEN [streamSid |-> m.streamSid, callSid |-> m.callSid,
          customParameters |-> m.customParameters]
    ELSE cur

UserAudioChunk(payload) ==
    [type |-> "user_audio_chunk", payload |-> Reencode(payload)]

\* Faulty variant of ForwardedAudio: line 247 tests that elevenLabsWs exists
\* and has not closed, not that it is open.
ForwardedAudioWhileConnecting(m, el) ==
    IF m.json /\ m.event = "media" /\ el \in { "CONNECTING", "OPEN" } /\ m.hasBody
    THEN << UserAudioChunk(m.payload) >>
    ELSE <<>>

\* Lines 247-251: what the handler passes to elevenLabsWs.send for frame m.
ForwardedAudio(m, el) ==
    IF m.json /\ m.event = "media" /\ el = "OPEN" /\ m.hasBody
    THEN << UserAudioChunk(m.payload) >>
    ELSE <<>>

\* Line 252: frame m reaches the stop branch (a media frame reaches it
\* when the AI connection is not open, and is no stop).
IsStop(m) == m.json /\ m.event = "stop"

\* Lines 252-256: the AI connection's state after frame m.
ElevenLabsAfterTwilio(m, el) ==
    IF m.json /\ m.event = "stop" /\ el = "OPEN" THEN "CLOSING" ELSE el

\* Faulty variant of TwilioAfterMessage: what the try block throws is not caught and
\* ends the connection.
TwilioClosedOnThrow(m, ts) == IF ~m.json THEN "CLOSED" ELSE ts

\* The telephony connection's state after frame m: the handler catches
\* whatever the try block throws and closes nothing.
TwilioAfterMessage(m, ts) == ts

\* The console after the handler has run for frame m (lines 246, 258).
ConsoleAfterTwilio(m, el, cur) ==
    IF TwilioThrows(m, el) THEN "Error processing message from Twilio:"
    ELSE IF m.event = "start" THEN "Stream started for callSid"
    ELSE cur

TwilioOnMessage(m) ==
    /\ twilioState = "OPEN"
    /\ handled < MaxMsgs
    /\ handled' = handled + 1
    /\ streamSid' = SessionAfter(m, Session).streamSid
    /\ callSid' = SessionAfter(m, Session).callSid
    /\ customParameters' = SessionAfter(m, Session).customParameters
    /\ stopReceived' = (stopReceived \/ IsStop(m))
    /\ elevenOut' = elevenOut \o ForwardedAudio(m, elState)
    /\ elState' = ElevenLabsAfterTwilio(m, elState)
    /\ twilioState' = TwilioAfterMessage(m, twilioState)
    /\ console' = ConsoleAfterTwilio(m, elState, console)
    /\ UNCHANGED << setup, elReceiver, twilioOut, observerVars >>

\* Faulty variant of ElevenLabsAfterTwilioClose: the close handler only logs.
ElevenLabsLeftOpenOnTwilioClose(el) == el

\* Lines 263-265.
ElevenLabsAfterTwilioClose(el) == IF el = "OPEN" THEN "CLOSING" ELSE el

\* Faulty variant of RegistryAfterTwilioClose: the close handler removes the
\* session's entry.
RegistryDroppedOnTwilioClose(map, cid) ==
    IF cid \in DOMAIN map THEN [map EXCEPT ![cid] = NoClient] ELSE map

\* Lines 262-267: callClientMap after ws "close": the handler does not
\* touch it.
RegistryAfterTwilioClose(map, cid) == map

\* The peer's close frame arrives on the telephony connection: readyState
\* becomes CLOSING and no further frame is emitted; no handler runs until
\* the close event.
TwilioClosing ==
    /\ twilioState = "OPEN"
    /\ twilioState' = "CLOSING"
    /\ UNCHANGED << sessionVars, setup, elState, elReceiver, elevenOut,
                    twilioOut, observerVars, console, handled >>

\* Line 144: ws "error" (the peer sent an invalid frame).  readyState is
\* CLOSING when the handler runs, no further frame is emitted, and the
\* close event follows in a later turn.
TwilioError ==
    /\ twilioState = "OPEN"
    /\ twilioState' = "CLOSING"
    /\ console' = "RangeError: Invalid WebSocket frame: RSV2 and RSV3 must be clear"
    /\ UNCHANGED << sessionVars, setup, elState, elReceiver, elevenOut,
                    twilioOut, observerVars, handled >>

\* Lines 262-267: ws "close".
TwilioClose ==
    /\ twilioState \in { "OPEN", "CLOSING" }
    /\ twilioState' = "CLOSED"
    /\ elState' = ElevenLabsAfterTwilioClose(elState)
    /\ console' = "Twilio stream closed for callSid"
    /\ callClientMap' = RegistryAfterTwilioClose(callClientMap, callSid)
    /\ UNCHANGED << sessionVars, setup, elReceiver, elevenOut, twilioOut,
                    obsState, obsCall, obsIn, handled >>

-----------------------------------------------------------------------------
(* /transcription-stream/:callSid, lines 272-292                           *)

\* Line 280.
RegistrySet(map, cid, o) == [map EXCEPT ![cid] = o]

\* Lines 284, 289.
RegistryDelete(map, cid) == [map EXCEPT ![cid] = NoClient]

\* Lines 275-280: an observer connects for callSid cid.
ObserverConnect(o, cid) ==
    /\ obsState[o] = "IDLE"
    /\ obsState' = [obsState EXCEPT ![o] = "OPEN"]
    /\ obsCall' = [obsCall EXCEPT ![o] = cid]
    /\ callClientMap' = RegistrySet(callClientMap, cid, o)
    /\ console' = "Frontend client connected for callSid"
    /\ UNCHANGED << twilioState, sessionVars, setup, elState, elReceiver,
                    elevenOut, twilioOut, obsIn, handled >>

\* The observer's socket leaves OPEN (its closing handshake has begun); no
\* handler of the route runs until the close event.
ObserverClosing(o) ==
    /\ obsState[o] = "OPEN"
    /\ obsState' = [obsState EXCEPT ![o] = "CLOSING"]
    /\ UNCHANGED << twilioState, sessionVars, setup, elState, elReceiver,
                    elevenOut, twilioOut, callClientMap, obsCall, obsIn, console,
                    handled >>

\* Lines 287-290: the observer's socket errors; its close event follows.
ObserverError(o) ==
    /\ obsState[o] = "OPEN"
    /\ obsState' = [obsState EXCEPT ![o] = "CLOSING"]
    /\ callClientMap' = RegistryDelete(callClientMap, obsCall[o])
    /\ console' = "WebSocket error for callSid"
    /\ UNCHANGED << twilioState, sessionVars, setup, elState, elReceiver,
                    elevenOut, twilioOut, obsCall, obsIn, handled >>

\* Lines 282-285: the observer's socket closes.
ObserverClose(o) ==
    /\ obsState[o] \in { "OPEN", "CLOSING" }
    /\ obsState' = [obsState EXCEPT ![o] = "CLOSED"]
    /\ callClientMap' = RegistryDelete(callClientMap, obsCall[o])
    /\ console' = "Frontend client disconnected for callSid"
    /\ UNCHANGED << twilioState, sessionVars, setup, elState, elReceiver,
                    elevenOut, twilioOut, obsCall, obsIn, handled >>

-----------------------------------------------------------------------------

Next ==
    \/ \E outcome \in CallOutcomes : OutboundCall(outcome)
    \/ TwilioAccept
    \/ \E outcome \in FetchOutcomes : FetchDone(outcome)
    \/ ElevenLabsOpen
    \/ ElevenLabsClosing
    \/ ElevenLabsError
    \/ ElevenLabsClose
    \/ \E m \in AiFrames : ElevenLabsOnMessage(m)
    \/ \E m \in TwilioFrames : TwilioOnMessage(m)
    \/ TwilioClosing
    \/ TwilioError
    \/ TwilioClose
    \/ \E o \in Observers, cid \in CallIds : ObserverConnect(o, cid)
    \/ \E o \in Observers : ObserverClosing(o)
    \/ \E o \in Observers : ObserverError(o)
    \/ \E o \in Observers : ObserverClose(o)

Spec == Init /\ [][Next]_vars

\* What the code's scheduling guarantees: a close that has been started
\* completes.  Whether a peer answers the signed-URL request (lines 61-75
\* set no timeout) or the opening handshake (line 158 sets none either),
\* sends a message or closes an open connection is up to the peer.
CloseCompletes == elState = "CLOSING" /\ ElevenLabsClose
ObserverCloseCompletes ==
    \E o \in Observers : obsState[o] = "CLOSING" /\ ObserverClose(o)

FairSpec ==
    /\ Spec
    /\ WF_vars(CloseCompletes)
    /\ WF_vars(ObserverCloseCompletes)

-----------------------------------------------------------------------------
(* Properties                                                              *)

\* A start event has been handled (line 246 has been reached): every start
\* frame of TwilioFrames that has a `start` object carries a callSid.
Started == callSid # Null

\* The AI leg failed to establish: setupElevenLabs ended in its catch, or
\* the socket closed without ever having opened (the initialization message
\* is sent on open).
SetupFailed ==
    \/ setup = "failed"
    \/ elState = "CLOSED" /\ elevenOut = <<>>

\* C1: a media frame that arrives before the start event is never forwarded
\* to the AI connection, whatever the state of the AI connection.
C1_MediaBeforeStartNeverForwarded ==
    [][ (/\ ~Started
         /\ \E m \in TwilioFrames : m.event = "media" /\ TwilioOnMessage(m))
        => elevenOut' = elevenOut ]_vars

\* C3: when the AI connection closes (or errors) while the telephony
\* connection is open, the bridge closes the telephony connection: it leaves
\* OPEN in the step that handles the close or the error.
C3_AiCloseClosesTelephony ==
    [][ (/\ \/ elState # "CLOSED" /\ elState' = "CLOSED"
            \/ ElevenLabsError
         /\ twilioState = "OPEN")
        => twilioState' # "OPEN" ]_vars

\* C4: when the telephony connection closes (its close event, whether it
\* was open or closing before) while the AI connection is open, close is
\* invoked on the AI connection (it leaves OPEN in the same step).
C4_TelephonyCloseClosesOpenAi ==
    [][ (twilioState # "CLOSED" /\ twilioState' = "CLOSED" /\ elState = "OPEN")
        => elState' = "CLOSING" ]_vars

\* C4 witness: the telephony connection has closed, no stop event was ever
\* handled, and the AI connection is closing with its receiver still
\* attached (neither an error nor the peer's close frame put it there): the
\* close handler closed it.
C4_Witness ==
    /\ twilioState = "CLOSED"
    /\ ~stopReceived
    /\ elState = "CLOSING"
    /\ elReceiver

\* C5: no state is reachable in which the AI leg has failed to establish
\* and the telephony connection is still open: the handler that meets the
\* failure closes it.
C5_SetupFailureClosesTelephony ==
    SetupFailed => twilioState # "OPEN"

\* The payload of an AI audio message: audio.chunk, or else
\* audio_event.audio_base_64.
HasPayload(m) == Truthy(m.chunk) \/ Truthy(m.audio_base_64)
PayloadOf(m) == IF Truthy(m.chunk) THEN m.chunk ELSE m.audio_base_64

\* C2: once a start event has set streamSid to S, every AI audio message
\* that carries a payload (under audio.chunk or audio_event.audio_base_64)
\* makes the bridge send exactly one telephony frame: the media frame tagged
\* S with that payload unchanged.
C2_AudioTranslatedWithStreamSid ==
    [][ \A m \in AiFrames :
          (/\ m.json /\ m.type = "audio" /\ HasPayload(m)
           /\ Started /\ streamSid # Null
           /\ ElevenLabsOnMessage(m))
          => twilioOut' = Append(twilioOut,
                                 MediaFrame(streamSid, PayloadOf(m))) ]_vars

\* C2 witness: after start{streamSid: "ST1", callSid: "CA1"}, an audio
\* message with audio.chunk "QUJD" and one with audio_event.audio_base_64
\* "REVG" have each produced their frame.
C2_Witness ==
    /\ streamSid = "ST1"
    /\ callSid = "CA1"
    /\ twilioOut = << MediaFrame("ST1", "QUJD"), MediaFrame("ST1", "REVG") >>

\* The speaker label of a transcript message.
SpeakerOf(m) == IF m.type = "agent_response" THEN "Agent" ELSE "User"

IsTranscript(m) ==
    m.json /\ m.type \in { "agent_response", "user_transcript" }

\* C6: when the registry holds a writable observer for the session's callSid
\* and the AI connection delivers an agent_response (user_transcript) with
\* text t, that observer receives exactly the event
\* {transcript, Agent (User), t}, and no other observer receives anything.
C6_TranscriptReachesObserver ==
    [][ \A m \in AiFrames :
          (/\ IsTranscript(m)
           /\ Started
           /\ FrontendWritable(callClientMap, obsState, callSid)
           /\ ElevenLabsOnMessage(m))
          => obsIn' = [obsIn EXCEPT ![callClientMap[callSid]] =
                         Append(@, Transcript(SpeakerOf(m), m.text))] ]_vars

\* C6 witness: observer A, registered for CA1, received the agent's text;
\* observer B then attached for CA1, during the call, and received the
\* user's.
C6_Witness ==
    /\ callSid = "CA1"
    /\ obsIn["A"] = << Transcript("Agent", "hello") >>
    /\ obsIn["B"] = << Transcript("User", "hi") >>

\* C7: while the registry holds no observer for the session's callSid, or
\* holds one whose connection is not writable, a transcript message delivers
\* nothing to any observer and leaves the telephony and AI connections and
\* what was sent on them as they were.
C7_SendWithoutWritableObserverIsNoOp ==
    [][ \A m \in AiFrames :
          (/\ IsTranscript(m)
           /\ ~FrontendWritable(callClientMap, obsState, callSid)
           /\ ElevenLabsOnMessage(m))
          => UNCHANGED << obsIn, twilioState, elState, elReceiver, twilioOut,
                          elevenOut,
                          callClientMap, obsState >> ]_vars

\* C7 witness: observer A received an event for CA1, then its connection
\* stopped being writable while still registered, and the next send found
\* no writable client (line 151) and delivered nothing more.
C7_Witness ==
    /\ callSid = "CA1"
    /\ callClientMap["CA1"] = "A"
    /\ obsState["A"] = "CLOSING"
    /\ Len(obsIn["A"]) = 1
    /\ handled = 3
    /\ console = "No frontend client found for callSid"

\* C8: an interruption message received once start has set streamSid to S
\* makes the bridge send exactly the frame {clear, S} next; while streamSid
\* is unset it sends nothing.
C8_InterruptionClears ==
    [][ \A m \in AiFrames :
          (m.json /\ m.type = "interruption" /\ ElevenLabsOnMessage(m))
          => twilioOut' = IF streamSid # Null
                          THEN Append(twilioOut, ClearFrame(streamSid))
                          ELSE twilioOut ]_vars

\* C8 witness: after start with streamSid "ST1", the frame sent after a
\* media frame is the clear frame for "ST1".
C8_Witness ==
    /\ streamSid = "ST1"
    /\ twilioOut = << MediaFrame("ST1", "QUJD"), ClearFrame("ST1") >>

\* C9: a frame that is not JSON, on the telephony or on the AI connection,
\* changes nothing but the console and the count of handled messages: the
\* identifiers and parameters, both connections, what was sent to either
\* peer and to the observers, and the registry stay as they were.
C9_MalformedFrameChangesNothing ==
    [][ (\/ \E m \in TwilioFrames : ~m.json /\ TwilioOnMessage(m)
         \/ \E m \in AiFrames : ~m.json /\ ElevenLabsOnMessage(m))
        => UNCHANGED << sessionVars, setup, twilioState, elState, elReceiver,
                        elevenOut,
                        twilioOut, observerVars >> ]_vars

\* C9 witness: a malformed AI frame was the last thing handled, after a
\* start event and a translated audio message, and both connections are
\* open.
C9_Witness ==
    /\ console = "Error processing message from ElevenLabs:"
    /\ streamSid = "ST1"
    /\ twilioOut = << MediaFrame("ST1", "QUJD") >>
    /\ twilioState = "OPEN"
    /\ elState = "OPEN"

\* C10: every media or clear frame the bridge sends to the telephony
\* connection is also pushed, identical, to the writable observer registered
\* for the session's callSid.
C10_TelephonyFramesMirroredToObserver ==
    [][ \A m \in AiFrames :
          (/\ ElevenLabsOnMessage(m)
           /\ TwilioFramesFor(m, streamSid) # <<>>
           /\ FrontendWritable(callClientMap, obsState, callSid))
          => obsIn'[callClientMap[callSid]] =
                obsIn[callClientMap[callSid]] \o TwilioFramesFor(m, streamSid)
      ]_vars

\* C11: the events delivered to an observer are, in the same order, events
\* the bridge emitted for that observer's callSid: an observer's inbox only
\* ever grows at its end, by the event emitted in that very step for the
\* callSid the observer attached for.
C11_DeliveredInEmissionOrder ==
    [][ \A o \in Observers :
          \/ obsIn'[o] = obsIn[o]
          \/ \E m \in AiFrames :
               /\ ElevenLabsOnMessage(m)
               /\ FrontendEventsFor(m) # <<>>
               /\ obsCall[o] = callSid
               /\ obsIn'[o] = Append(obsIn[o], FrontendEventsFor(m)[1]) ]_vars

\* C11 witness: observer A, attached for CA1, holds the agent's text and
\* then the user's, the order in which the session for CA1 emitted them.
C11_Witness ==
    /\ callSid = "CA1"
    /\ obsCall["A"] = "CA1"
    /\ obsIn["A"] = << Transcript("Agent", "hello"), Transcript("User", "hi") >>

\* C12: once a start event has set callSid and streamSid, they and the
\* captured customParameters never change, whatever telephony events follow.
C12_IdentifiersSetOnce ==
    [][ Started => UNCHANGED << streamSid, callSid, customParameters >> ]_vars

\* C13: while no start event has been handled, the AI connection has not
\* been created and nothing has been sent on it.
C13_AiSetupOnlyAfterStart ==
    ~Started => (elState = "NONE" /\ elevenOut = <<>>)

\* C14: once both the start event has been handled and the initialization
\* message has been sent, that message carries the prompt and first_message
\* of the start event where it supplies them, and the defaults otherwise.
C14_InitCarriesStartParameters ==
    (Started /\ elevenOut # <<>>)
        => elevenOut[1] = InitialConfig(customParameters)

\* C15: nothing is sent on the AI connection before it has opened, and the
\* first thing sent on it is the initialization message; everything after it
\* is a user_audio_chunk.
C15_NothingSentBeforeAiOpen ==
    /\ elState \in { "NONE", "CONNECTING" } => elevenOut = <<>>
    /\ elevenOut # <<>> =>
         /\ elevenOut[1].type = "conversation_initiation_client_data"
         /\ \A i \in 2..Len(elevenOut) : elevenOut[i].type = "user_audio_chunk"

\* C15 witness: the AI connection opened, the initialization message went
\* out and a media frame was forwarded after it.
C15_Witness ==
    /\ elState = "OPEN"
    /\ Len(elevenOut) = 2
    /\ elevenOut[2] = UserAudioChunk(<<16, 20, 9, 3>>)

\* C16: while streamSid is unset no step sends a frame to the telephony
\* connection, the step that handles start included (nothing was queued);
\* a frame is only ever sent in the step that handles an AI message, is
\* the one frame of that message, and carries the streamSid then set.
C16_NoFrameWithoutStreamSid ==
    [][ /\ streamSid = Null => twilioOut' = twilioOut
        /\ twilioOut' # twilioOut =>
             \E m \in AiFrames :
               /\ ElevenLabsOnMessage(m)
               /\ streamSid # Null
               /\ \/ /\ m.type = "audio" /\ HasPayload(m)
                     /\ twilioOut' = Append(twilioOut,
                                       MediaFrame(streamSid, PayloadOf(m)))
                  \/ /\ m.type = "interruption"
                     /\ twilioOut' = Append(twilioOut, ClearFrame(streamSid))
      ]_vars

\* C16 witness: an audio message arrived while streamSid was unset and was
\* dropped with the log line of line 210; nothing has been sent.
C16_Witness ==
    /\ streamSid = Null
    /\ handled > 0
    /\ console = "[ElevenLabs] Received audio but no StreamSid yet"
    /\ twilioOut = <<>>

\* C17: once a stop event has been handled the AI connection is never open
\* again, nothing more is sent to it, and no frame goes to the telephony
\* connection or event to an observer.
C17_SessionTerminalAfterStop ==
    [][ stopReceived =>
          /\ elState' # "OPEN"
          /\ elevenOut' = elevenOut
          /\ twilioOut' = twilioOut
          /\ obsIn' = obsIn ]_vars

\* C18: the registry changes only in a step in which an observer attaches,
\* errors or disconnects: no step of the media bridge adds, replaces or
\* removes an entry.
C18_RegistryChangedOnlyByObservers ==
    [][ callClientMap' # callClientMap =>
          \E o \in Observers :
            \/ \E cid \in CallIds : ObserverConnect(o, cid)
            \/ ObserverError(o)
            \/ ObserverClose(o) ]_vars

\* C18 witness: observer A attached for CA1, received an event of the call,
\* and is still registered after both connections of the call have closed.
C18_Witness ==
    /\ callSid = "CA1"
    /\ twilioState = "CLOSED"
    /\ elState = "CLOSED"
    /\ obsIn["A"] # <<>>
    /\ callClientMap["CA1"] = "A"
    /\ obsState["A"] = "OPEN"

\* C19: when an observer that is no longer the registered one for its
\* callSid (a later observer overwrote its entry) disconnects or errors, the
\* registry keeps the later observer's entry.
C19_StaleDisconnectKeepsEntry ==
    [][ \A o \in Observers :
          (/\ ObserverClose(o) \/ ObserverError(o)
           /\ callClientMap[obsCall[o]] # o)
          => callClientMap' = callClientMap ]_vars

\* C20: the AI connection is never open once the telephony connection has
\* closed or a stop event has been handled.
C20_AiNeverOutlivesTelephony ==
    (twilioState = "CLOSED" \/ stopReceived) => elState # "OPEN"

====
